---- MODULE Spec2Model ----
(***************************************************************************)
(* Model of surveySimPP.py: run() as a sequential batch pipeline over one  *)
(* in-memory detection table (a pandas DataFrame `oif`).                   *)
(*                                                                         *)
(* A table is a sequence of rows; a row is a function from column names    *)
(* to values, with the extra key "index" holding the row's pandas index    *)
(* label.  Magnitudes, SNR and sky coordinates are integers in scaled      *)
(* units: the comparisons of the code are kept as they are written.        *)
(***************************************************************************)
EXTENDS Integers, Sequences, FiniteSets, TLC

VARIABLES
    pc,          \* position of the process inside run()
    config,      \* the parsed configuration (lines 70-101)
    run,         \* number of the current invocation of the script
    oif,         \* the detection table
    surveydb,    \* result of the first query (line 155)
    pointings,   \* result of the second query (line 194)
    pointingdb,  \* the SummaryAllProps table of the pointing database on disk
    detectors,   \* detector polygons built at lines 163-166
    footprintFile, \* name of the file the polygons were read from
    con,         \* state of the sqlite connection: "none", "open", "released"
    opens,       \* how many connections this run has opened
    queries,     \* queries issued so far: <<name, connection number, con state>>
    inputsRead,  \* input files / databases read so far in this run
    written,     \* output writes done by this run: sequence of formats
    h5,          \* the hdf5 output file on disk (persists between runs)
    h5AtStart,   \* what that file held when the current process started
    exitStatus,  \* process exit status, -1 while running
    message,     \* what the process told the user when it stopped
    failure      \* why the run stopped ("none" while running / on success)

vars == <<pc, config, run, oif, surveydb, pointings, pointingdb, detectors, footprintFile,
          con, opens, queries, inputsRead, written, h5, h5AtStart, exitStatus,
          message, failure>>

(***************************************************************************)
(* Bounds of the model.                                                    *)
(***************************************************************************)
MaxRows == 2        \* rows in the detection catalogue
MaxObsId == 2       \* observationId values are 0..MaxObsId
MaxRuns == 2        \* invocations of the script on the same output directory

(***************************************************************************)
(* Small tables helpers (pandas semantics).                                *)
(***************************************************************************)
Range(s) == {s[i] : i \in 1..Len(s)}

\* DataFrame.reset_index(drop=True): labels become 0..n-1 in row order.
ResetIndex(t) == [i \in 1..Len(t) |-> ("index" :> (i - 1)) @@ t[i]]

\* the labels of a table, in row order
IndexOf(t) == [i \in 1..Len(t) |-> t[i]["index"]]

\* np.where(mask)[0]: the POSITIONS (0-based) at which the mask is true.
WherePositions(mask) == {i - 1 : i \in {j \in 1..Len(mask) : mask[j]}}

\* DataFrame.drop(labels): KeyError when a label is not in the index,
\* otherwise every row carrying one of the labels is removed.
DropRaises(t, labels) == \E l \in labels : l \notin Range(IndexOf(t))
Drop(t, labels) == SelectSeq(t, LAMBDA r : r["index"] \notin labels)

\* DataFrame.iloc[positions]: rows by position, labels kept.
Iloc(t, positions) == [k \in 1..Len(positions) |-> t[positions[k] + 1]]

\* DataFrame.lookup(row_labels, col): the value of `col` in the row whose
\* index LABEL is the given one; KeyError when no row carries that label.
LookupRaises(t, labels) == \E i \in 1..Len(labels) : labels[i] \notin Range(IndexOf(t))
Lookup(t, labels, col) ==
    [i \in 1..Len(labels) |->
        (CHOOSE r \in Range(t) : r["index"] = labels[i])[col]]

Column(t, col) == [i \in 1..Len(t) |-> t[i][col]]

\* the assignment done as a join that loses the rows whose value is 0
AssignColumnLossy(t, col, vals) ==
    LET full == [i \in 1..Len(t) |-> (col :> vals[i]) @@ t[i]]
    IN SelectSeq(full, LAMBDA r : r[col] # 0)

\* oif[col] = values  (values given positionally, one per row)
AssignColumn(t, col, vals) == [i \in 1..Len(t) |-> (col :> vals[i]) @@ t[i]]

RowIds(t) == {t[i]["ObjID"] : i \in 1..Len(t)}

(***************************************************************************)
(* Configuration.                                                          *)
(***************************************************************************)
DefaultFootprint == "detectors_corners.csv"
OtherFootprint == "other_corners.csv"

Configs ==
    [ general : BOOLEAN,                       \* [GENERAL] testvalue present
      mainfilter : {"V", "r"},
      othercolours : {<<"V-g">>},
      resfilters : {<<"V", "g">>, <<"V", "g", "r">>},
      SSPDetectionEfficiency : {1, 3},
      minTracklet : {0, 2},
      noTracklets : {0, 3},
      trackletInterval : {0, 15},
      outputformat : {"csv", "sqlite3", "hdf5", "txt"},
      camerafootprint : {DefaultFootprint, OtherFootprint} ]

\* The checks of lines 115-145, in the order of the code.
ColoursMismatch(cfg) == Len(cfg.othercolours) # Len(cfg.resfilters) - 1
MainFilterNotFirst(cfg) == cfg.mainfilter # cfg.resfilters[1]
MinTrackletBad(cfg) == cfg.minTracklet < 1
NoTrackletsBad(cfg) == cfg.noTracklets < 1
\* the check as its message words it: only a negative interval is refused
TrackletIntervalNegative(cfg) == cfg.trackletInterval < 0
TrackletIntervalBad(cfg) == cfg.trackletInterval <= 0
OutputFormatBad(cfg) ==
    cfg.outputformat # "csv" /\ cfg.outputformat # "sqlite3" /\ cfg.outputformat # "hdf5"

\* sys.exit() with no argument ends the process with status 0;
\* sys.exit("text") prints the text and ends it with status 1;
\* an uncaught exception prints a traceback and ends it with status 1.
ExitNoArg(why, logged) == [failure |-> why, status |-> 0, message |-> logged]
ExitText(why, text) == [failure |-> why, status |-> 1, message |-> text]
Uncaught(why) == [failure |-> why, status |-> 1, message |-> "Traceback"]
Continue == [failure |-> "none", status |-> -1, message |-> ""]

Validate(cfg) ==
    IF ~cfg.general THEN Uncaught("KeyError: GENERAL")
    ELSE IF ColoursMismatch(cfg)
        THEN ExitNoArg("colours", "ERROR: mismatch in input config colours and filters")
    ELSE IF MainFilterNotFirst(cfg)
        THEN ExitNoArg("mainfilter", "ERROR: main filter should be the first among resfilters.")
    ELSE IF MinTrackletBad(cfg)
        THEN ExitNoArg("minTracklet", "ERROR: minimum length of tracklet is zero or negative.")
    ELSE IF NoTrackletsBad(cfg)
        THEN ExitNoArg("noTracklets", "ERROR: number of tracklets is zero or negative.")
    ELSE IF TrackletIntervalBad(cfg)
        THEN ExitNoArg("trackletInterval", "ERROR: tracklet interval is negative.")
    ELSE IF OutputFormatBad(cfg)
        THEN ExitText("outputformat", "ERROR: output format should be either csv or sqlite3.")
    ELSE Continue


(***************************************************************************)
(* The input files.                                                        *)
(***************************************************************************)
\* The stored detection catalogue: up to MaxRows detections, each of one
\* object in one exposure, with whatever index the file was saved with.
Catalogues ==
    UNION { [1..n -> 0..MaxObsId] : n \in 0..MaxRows }

CatalogueRows(fields) ==
    [i \in 1..Len(fields) |->
        ("index" :> 10 * i) @@ ("ObjID" :> i) @@ ("FieldID" :> fields[i])
        @@ ("V" :> 23) @@ ("AstRA(deg)" :> 1) @@ ("AstDec(deg)" :> 0)]

\* SummaryAllProps, as returned by a query ORDER BY observationId: the
\* result carries a fresh RangeIndex 0..m-1.
SortedSeq(S) ==
    CHOOSE s \in [1..Cardinality(S) -> S] :
        \A i, j \in 1..Cardinality(S) : i < j => s[i] < s[j]

FilterOfExposure(id) == IF id % 2 = 0 THEN "V" ELSE "g"

\* the limiting magnitude of each exposure of the database
DepthOfExposure(id) == 23 + ((id \div 2) % 2)

SummaryAllProps(ids) ==
    LET s == SortedSeq(ids) IN
    [i \in 1..Len(s) |->
        [ index |-> i - 1, observationId |-> s[i], filter |-> FilterOfExposure(s[i]),
          fiveSigmaDepth |-> DepthOfExposure(s[i]), fieldRA |-> 0, rotSkyPos |-> 0 ]]

\* first query (line 155) and second query (line 194) on the same table
ConditionsQuery(db) ==
    [i \in 1..Len(db) |->
        [ index |-> db[i].index, observationId |-> db[i].observationId,
          filter |-> db[i].filter, fiveSigmaDepth |-> db[i].fiveSigmaDepth ]]
PointingsQuery(db) ==
    [i \in 1..Len(db) |->
        [ index |-> db[i].index, observationId |-> db[i].observationId,
          fieldRA |-> db[i].fieldRA, rotSkyPos |-> db[i].rotSkyPos ]]

\* The detector-corner files on disk: rows (detector, x).
FootprintFiles ==
    (DefaultFootprint :>
        << [detector |-> 0, x |-> 0], [detector |-> 0, x |-> 0],
           [detector |-> 1, x |-> 1], [detector |-> 1, x |-> 1] >>)
    @@ (OtherFootprint :>
        << [detector |-> 0, x |-> 2], [detector |-> 0, x |-> 3] >>)

\* the footprint read from the configured path instead
FootprintPathConfigured(cfg) == cfg.camerafootprint

\* line 162: the file that is read is the literal 'detectors_corners.csv'
FootprintPath(cfg) == DefaultFootprint

\* lines 163-166: one polygon per detector number 0..k-1
BuildDetectors(df) ==
    LET k == Cardinality({df[i].detector : i \in 1..Len(df)}) IN
    [d \in 1..k |->
        LET mine == SelectSeq(df, LAMBDA r : r.detector = d - 1) IN
        [j \in 1..Len(mine) |-> mine[j].x]]


(***************************************************************************)
(* The stage functions of modules/ (not part of this source file): what    *)
(* each returns for the table it is given.  Where the result depends on    *)
(* noise or on coefficients of the module, the action draws it.            *)
(***************************************************************************)
ExposureOf(db, fieldId) == CHOOSE e \in Range(db) : e.observationId = fieldId

ColourOffset(objId, filter) == -1

\* PPTranslateMagnitude: identity in the main filter, V + colour otherwise
PPTranslateMagnitude(t, db, cfg) ==
    [i \in 1..Len(t) |->
        LET f == ExposureOf(db, t[i]["FieldID"]).filter IN
        IF f = cfg.mainfilter THEN t[i]["V"] ELSE t[i]["V"] + ColourOffset(t[i]["ObjID"], f)]

SNRValues == {1, 2, 3}
PhotNoise == {0, 1}
TrailingLosses == {0, 1}
AstNoise == {-1, 0, 1}

\* randomizePhotometry / randomizeAstrometry: value plus a drawn deviation
Randomize(t, col, noise) == [i \in 1..Len(t) |-> t[i][col] + noise[i]]

\* footPrintFilter: positions (0-based, ascending) of the rows whose
\* observed coordinate, taken relative to the field centre of the row's
\* exposure, lies inside at least one detector polygon.
InPolygon(x, poly) ==
    /\ \E j \in 1..Len(poly) : poly[j] <= x
    /\ \E j \in 1..Len(poly) : x <= poly[j]
OnSensor(r, pts, dets) ==
    LET x == r["AstRA(deg)"] - ExposureOf(pts, r["FieldID"]).fieldRA IN
    \E d \in 1..Len(dets) : InPolygon(x, dets[d])
RECURSIVE PositionsWhere(_, _, _, _)
PositionsWhere(t, pts, dets, i) ==
    IF i > Len(t) THEN << >>
    ELSE (IF OnSensor(t[i], pts, dets) THEN <<i - 1>> ELSE << >>)
         \o PositionsWhere(t, pts, dets, i + 1)
footPrintFilter(t, pts, dets) == PositionsWhere(t, pts, dets, 1)

(***************************************************************************)
(* run(): the order of the stages and how the process stops.               *)
(***************************************************************************)
\* the output written before the faint-detection cut
PipelineWriteEarly ==
    << "config", "read_oif", "read_db", "read_colours", "load_footprint",
       "translate", "uncertainties", "snr_filter", "rand_photometry",
       "trailing_loss", "write", "faint_filter", "rand_astrometry",
       "footprint_filter", "assemble", "finish" >>

Pipeline ==
    << "config", "read_oif", "read_db", "read_colours", "load_footprint",
       "translate", "uncertainties", "snr_filter", "rand_photometry",
       "trailing_loss", "faint_filter", "rand_astrometry", "footprint_filter",
       "assemble", "write", "finish" >>

StageAfter(p) ==
    LET k == CHOOSE i \in 1..Len(Pipeline) : Pipeline[i] = p IN Pipeline[k + 1]

\* the cut taken from the configured detection efficiency instead
SNRCutConfigured(cfg) == cfg.SSPDetectionEfficiency

\* line 174: the SNR cut is the literal 2.
SNRLimit == 2
SNRCut(cfg) == SNRLimit

\* the second query on a connection of its own
PointingsConnFresh(n) == n + 1

\* line 194 issues the second query on `con`, the connection of line 154:
\* the number of the connection it uses, given how many were opened so far
PointingsConn(n) == n

\* The process ends (sys.exit, an uncaught exception, or the end of the
\* __main__ block): run() never closes `con`; the connection goes with the
\* process.
ProcessEnd(c) == IF c = "open" THEN "released" ELSE c

Die(o) ==
    /\ pc' = "exited"
    /\ exitStatus' = o.status
    /\ message' = o.message
    /\ failure' = o.failure
    /\ con' = ProcessEnd(con)

Go(p) ==
    /\ pc' = StageAfter(p)
    /\ UNCHANGED <<exitStatus, message, failure>>

\* no process is running: nothing but the output file exists
NoConfig == [general |-> FALSE]

Idle(r, file) ==
    /\ pc = "idle"
    /\ config = NoConfig
    /\ run = r
    /\ oif = << >>
    /\ surveydb = << >>
    /\ pointings = << >>
    /\ pointingdb = << >>
    /\ detectors = << >>
    /\ footprintFile = ""
    /\ con = "none"
    /\ opens = 0
    /\ queries = {}
    /\ inputsRead = {}
    /\ written = << >>
    /\ h5 = file
    /\ h5AtStart = file
    /\ exitStatus = -1
    /\ message = ""
    /\ failure = "none"

Init == Idle(0, [exists |-> FALSE, data |-> << >>])

\* the script is started (lines 240-246) with some configuration file
Start ==
    /\ pc = "idle"
    /\ run < MaxRuns
    /\ run' = run + 1
    /\ \E cfg \in Configs : config' = cfg
    /\ pc' = "config"
    /\ h5AtStart' = h5
    /\ UNCHANGED <<oif, surveydb, pointings, pointingdb, detectors, footprintFile,
                   con, opens, queries, inputsRead, written, h5, exitStatus,
                   message, failure>>

\* lines 63-145: parse the configuration and validate it
Configure ==
    /\ pc = "config"
    /\ LET o == Validate(config) IN
       IF o.failure = "none"
       THEN Go("config") /\ UNCHANGED con
       ELSE Die(o)
    /\ UNCHANGED <<config, run, oif, surveydb, pointings, pointingdb, detectors,
                   footprintFile, opens, queries, inputsRead, written, h5, h5AtStart>>

\* lines 149-151: read the detection catalogue (the file may be missing)
ReadOif ==
    /\ pc = "read_oif"
    /\ \/ /\ \E fields \in Catalogues : oif' = ResetIndex(CatalogueRows(fields))
          /\ inputsRead' = inputsRead \cup {"oifoutput"}
          /\ Go("read_oif") /\ UNCHANGED con
       \/ /\ Die(Uncaught("FileNotFoundError: oifoutput"))
          /\ UNCHANGED <<oif, inputsRead>>
    /\ UNCHANGED <<config, run, surveydb, pointings, pointingdb, detectors,
                   footprintFile, opens, queries, written, h5, h5AtStart>>

\* lines 153-155: open the pointing database and run the first query.
\* Every FieldID of the catalogue is an observationId of the database.
ReadSurveydb ==
    /\ pc = "read_db"
    /\ opens' = opens + 1
    /\ \/ /\ \E ids \in SUBSET (0..MaxObsId) :
               /\ ids # {}
               /\ Range(Column(oif, "FieldID")) \subseteq ids
               /\ pointingdb' = SummaryAllProps(ids)
          /\ surveydb' = ConditionsQuery(pointingdb')
          /\ queries' = queries \cup {[q |-> "conditions", c |-> opens', open |-> TRUE]}
          /\ inputsRead' = inputsRead \cup {"pointingdatabase"}
          /\ con' = "open"
          /\ Go("read_db")
       \/ /\ pc' = "exited"
          /\ exitStatus' = 1
          /\ message' = "Traceback"
          /\ failure' = "DatabaseError: no such table"
          /\ con' = ProcessEnd("open")
          /\ queries' = queries \cup {[q |-> "conditions", c |-> opens', open |-> TRUE]}
          /\ UNCHANGED <<surveydb, pointingdb, inputsRead>>
    /\ UNCHANGED <<config, run, oif, pointings, detectors, footprintFile,
                   written, h5, h5AtStart>>

\* lines 157-159: read the colour table
ReadColours ==
    /\ pc = "read_colours"
    /\ inputsRead' = inputsRead \cup {"colourinput"}
    /\ Go("read_colours")
    /\ UNCHANGED <<config, run, oif, surveydb, pointings, pointingdb, detectors,
                   footprintFile, con, opens, queries, written, h5, h5AtStart>>

\* lines 161-166: load the camera footprint
LoadFootprint ==
    /\ pc = "load_footprint"
    /\ footprintFile' = FootprintPath(config)
    /\ detectors' = BuildDetectors(FootprintFiles[footprintFile'])
    /\ inputsRead' = inputsRead \cup {"camerafootprint"}
    /\ Go("load_footprint")
    /\ UNCHANGED <<config, run, oif, surveydb, pointings, pointingdb, con, opens,
                   queries, written, h5, h5AtStart>>


Rest == <<config, run, surveydb, pointingdb, detectors, footprintFile, inputsRead,
          written, h5, h5AtStart>>

\* lines 168-169
TranslateMagnitude ==
    /\ pc = "translate"
    /\ oif' = AssignColumn(oif, "MaginFilterTrue",
                           PPTranslateMagnitude(oif, surveydb, config))
    /\ Go("translate")
    /\ UNCHANGED <<Rest, pointings, con, opens, queries>>

\* lines 171-172
AddUncertainties ==
    /\ pc = "uncertainties"
    /\ \E snr \in [1..Len(oif) -> SNRValues] :
         LET n == Len(oif)
             t1 == AssignColumn(oif, "AstrometricSigma(mas)", [i \in 1..n |-> 3600000])
             t2 == AssignColumn(t1, "PhotometricSigma(mag)", [i \in 1..n |-> 1])
             t3 == AssignColumn(t2, "SNR", snr)
         IN oif' = AssignColumn(t3, "AstrometricSigma(deg)",
                     [i \in 1..n |-> (t3[i]["AstrometricSigma(mas)"] \div 3600) \div 1000])
    /\ Go("uncertainties")
    /\ UNCHANGED <<Rest, pointings, con, opens, queries>>

\* lines 174-175
SNRFilter ==
    /\ pc = "snr_filter"
    /\ LET labels == WherePositions([i \in 1..Len(oif) |-> oif[i]["SNR"] <= SNRCut(config)])
       IN IF DropRaises(oif, labels)
          THEN Die(Uncaught("KeyError: drop")) /\ UNCHANGED oif
          ELSE /\ oif' = ResetIndex(Drop(oif, labels))
               /\ Go("snr_filter") /\ UNCHANGED con
    /\ UNCHANGED <<Rest, pointings, opens, queries>>

\* line 177
RandomizePhotometry ==
    /\ pc = "rand_photometry"
    /\ \E noise \in [1..Len(oif) -> PhotNoise] :
         oif' = AssignColumn(oif, "MaginFilter", Randomize(oif, "MaginFilterTrue", noise))
    /\ Go("rand_photometry")
    /\ UNCHANGED <<Rest, pointings, con, opens, queries>>

\* lines 179-180
TrailingLoss ==
    /\ pc = "trailing_loss"
    /\ \E loss \in [1..Len(oif) -> TrailingLosses] :
         oif' = AssignColumn(oif, "dmagDetect", loss)
    /\ Go("trailing_loss")
    /\ UNCHANGED <<Rest, pointings, con, opens, queries>>

\* lines 182-186
FaintFilter ==
    /\ pc = "faint_filter"
    /\ IF LookupRaises(surveydb, Column(oif, "FieldID"))
       THEN Die(Uncaught("KeyError: lookup")) /\ UNCHANGED oif
       ELSE LET lim_mag == Lookup(surveydb, Column(oif, "FieldID"), "fiveSigmaDepth")
                labels == WherePositions(
                    [i \in 1..Len(oif) |->
                        oif[i]["MaginFilter"] + oif[i]["dmagDetect"] >= lim_mag[i]])
            IN IF DropRaises(oif, labels)
               THEN Die(Uncaught("KeyError: drop")) /\ UNCHANGED oif
               ELSE /\ oif' = ResetIndex(Drop(oif, labels))
                    /\ Go("faint_filter") /\ UNCHANGED con
    /\ UNCHANGED <<Rest, pointings, opens, queries>>

\* lines 188-191
RandomizeAstrometry ==
    /\ pc = "rand_astrometry"
    /\ \E noise \in [1..Len(oif) -> AstNoise] :
         LET n == Len(oif)
             t1 == AssignColumn(oif, "AstRATrue(deg)", Column(oif, "AstRA(deg)"))
             t2 == AssignColumn(t1, "AstDecTrue(deg)", Column(oif, "AstDec(deg)"))
             t3 == AssignColumn(t2, "AstRA(deg)",
                     [i \in 1..n |-> t2[i]["AstRA(deg)"] + noise[i] * t2[i]["AstrometricSigma(deg)"]])
         IN oif' = AssignColumn(t3, "AstDec(deg)", Column(t2, "AstDec(deg)"))
    /\ Go("rand_astrometry")
    /\ UNCHANGED <<Rest, pointings, con, opens, queries>>

\* lines 193-196
FootprintFilter ==
    /\ pc = "footprint_filter"
    /\ opens' = PointingsConn(opens)
    /\ queries' = queries \cup {[q |-> "pointings", c |-> opens', open |-> con = "open"]}
    /\ pointings' = PointingsQuery(pointingdb)
    /\ LET on_sensor == footPrintFilter(oif, pointings', detectors)
       IN oif' = Iloc(oif, on_sensor)
    /\ Go("footprint_filter")
    /\ UNCHANGED <<Rest, con>>

\* lines 198-200 (the drop of line 200 returns a copy that is discarded)
AssembleResult ==
    /\ pc = "assemble"
    /\ IF LookupRaises(surveydb, Column(oif, "FieldID"))
       THEN Die(Uncaught("KeyError: lookup")) /\ UNCHANGED oif
       ELSE /\ oif' = AssignColumn(oif, "Filter",
                         Lookup(surveydb, Column(oif, "FieldID"), "filter"))
            /\ Go("assemble") /\ UNCHANGED con
    /\ UNCHANGED <<Rest, pointings, opens, queries>>

\* What an output file holds of a table: the rows, in order, each named by
\* the run that produced it and its object.
Stored(t, r) == [i \in 1..Len(t) |-> <<r, t[i]["ObjID"]>>]

\* lines 223-230: DataFrame.to_hdf(out, key='data', format='table'[, mode='a'])
\* `append` is left at its default False, so the node 'data' is written
\* anew whether or not the file exists.
ToHdf(file, rows) == [exists |-> TRUE, data |-> rows]

\* lines 207-233
WriteOutput ==
    /\ pc = "write"
    /\ LET rows == Stored(oif, run) IN
       IF config.outputformat \in {"csv", "sqlite3"}
       THEN /\ written' = Append(written, [format |-> config.outputformat, rows |-> rows])
            /\ h5' = h5
            /\ Go("write") /\ UNCHANGED con
       ELSE IF config.outputformat = "hdf5"
       THEN /\ written' = Append(written, [format |-> "hdf5", rows |-> rows])
            /\ h5' = ToHdf(h5, rows)
            /\ Go("write") /\ UNCHANGED con
       ELSE /\ Die(ExitText("outputformat", "ERROR: unknown output format."))
            /\ UNCHANGED <<written, h5>>
    /\ UNCHANGED <<config, run, oif, surveydb, pointings, pointingdb, detectors,
                   footprintFile, opens, queries, inputsRead, h5AtStart>>

\* lines 235-238 and 247-249: log the run time, leave run(), end the process
Finish ==
    /\ pc = "finish"
    /\ Die([failure |-> "none", status |-> 0, message |-> "Post processing completed."])
    /\ UNCHANGED <<Rest, oif, pointings, opens, queries>>

\* the process is gone; only the output file stays behind
Leave ==
    /\ pc = "exited"
    /\ pc' = "idle"
    /\ config' = NoConfig
    /\ oif' = << >> /\ surveydb' = << >> /\ pointings' = << >>
    /\ pointingdb' = << >> /\ detectors' = << >> /\ footprintFile' = ""
    /\ con' = "none" /\ opens' = 0 /\ queries' = {} /\ inputsRead' = {}
    /\ written' = << >> /\ exitStatus' = -1 /\ message' = ""
    /\ failure' = "none"
    /\ h5AtStart' = h5
    /\ UNCHANGED <<run, h5>>

Next ==
    \/ Start
    \/ Configure
    \/ ReadOif
    \/ ReadSurveydb
    \/ ReadColours
    \/ LoadFootprint
    \/ TranslateMagnitude
    \/ AddUncertainties
    \/ SNRFilter
    \/ RandomizePhotometry
    \/ TrailingLoss
    \/ FaintFilter
    \/ RandomizeAstrometry
    \/ FootprintFilter
    \/ AssembleResult
    \/ WriteOutput
    \/ Finish
    \/ Leave

Spec == Init /\ [][Next]_vars


\* one invocation of the script, from its start to the end of the process
NextOneRun ==
    \/ Start
    \/ Configure
    \/ ReadOif
    \/ ReadSurveydb
    \/ ReadColours
    \/ LoadFootprint
    \/ TranslateMagnitude
    \/ AddUncertainties
    \/ SNRFilter
    \/ RandomizePhotometry
    \/ TrailingLoss
    \/ FaintFilter
    \/ RandomizeAstrometry
    \/ FootprintFilter
    \/ AssembleResult
    \/ WriteOutput
    \/ Finish

SpecOneRun == Init /\ [][NextOneRun]_vars


(***************************************************************************)
(* Properties.                                                             *)
(***************************************************************************)
Contiguous(t) == \A i \in 1..Len(t) : t[i]["index"] = i - 1
IdsWhere(t, P(_)) == {t[i]["ObjID"] : i \in {j \in 1..Len(t) : P(t[j])}}
ErrorExit == pc = "exited" /\ failure # "none"

\* C1: the rows left by the SNR drop are exactly the rows with SNR > 2,
\* in every run, whatever SSPDetectionEfficiency is configured.
C1_SNRDropKeepsExactlyAboveTwo ==
    [][ (pc = "snr_filter" /\ pc' = "rand_photometry") =>
          /\ RowIds(oif') = IdsWhere(oif, LAMBDA r : r["SNR"] > 2)
          /\ Len(oif') = Cardinality(RowIds(oif'))
          /\ \A i \in 1..Len(oif') : oif'[i]["SNR"] > 2 ]_vars

\* a run configured with detection efficiency 3 in which the first row was
\* dropped and the second, of SNR 3, was kept
C1_Witness ==
    /\ pc = "rand_photometry"
    /\ config.SSPDetectionEfficiency = 3
    /\ Len(oif) = 1
    /\ oif[1]["ObjID"] = 2
    /\ oif[1]["SNR"] = 3

\* C2: every row left by the faint-detection drop has MaginFilter +
\* dmagDetect strictly below the fiveSigmaDepth of the exposure whose
\* observationId is the row's FieldID.
C2_FaintSurvivorsBelowOwnExposureDepth ==
    pc = "rand_astrometry" =>
        \A i \in 1..Len(oif) :
            oif[i]["MaginFilter"] + oif[i]["dmagDetect"]
                < ExposureOf(surveydb, oif[i]["FieldID"]).fiveSigmaDepth

\* C3: each fatal configuration error ends the process with a non-zero
\* exit status and a message.
C3_FatalErrorsExitNonZero ==
    (pc = "exited" /\ failure \in {"colours", "mainfilter", "minTracklet",
                                   "noTracklets", "trackletInterval", "outputformat"})
        => (exitStatus # 0 /\ message # "")

\* C4: after each of the three filters the index of the table is 0..n-1.
C4_IndexContiguousAfterEachFilter ==
    pc \in {"rand_photometry", "rand_astrometry", "assemble"} => Contiguous(oif)

\* C5: a run that ends in an error has written no output; output is
\* written only by a run that has completed every stage.
C5_NoOutputBeforeAbort ==
    /\ ErrorExit => (written = << >> /\ h5 = h5AtStart)
    /\ written # << >> => (pc = "finish" \/ (pc = "exited" /\ failure = "none"))

\* a run that failed in a pipeline stage, after the inputs were read
C5_Witness ==
    /\ pc = "exited"
    /\ failure = "KeyError: lookup"
    /\ "pointingdatabase" \in inputsRead
    /\ written = << >>

\* the startup conditions, as the configuration contract words them
StartupValid(cfg) ==
    /\ Len(cfg.othercolours) = Len(cfg.resfilters) - 1
    /\ cfg.mainfilter = cfg.resfilters[1]
    /\ cfg.minTracklet >= 1
    /\ cfg.noTracklets >= 1
    /\ cfg.trackletInterval > 0
    /\ cfg.outputformat \in {"csv", "sqlite3", "hdf5"}

\* C6: an input is read only under a configuration that passes every
\* startup check; a configuration that fails one ends the process with no
\* input read.
C6_ValidatedBeforeAnyRead ==
    /\ (inputsRead # {} \/ pc \notin {"idle", "config", "exited"}) => StartupValid(config)
    /\ (pc = "exited" /\ ~StartupValid(config)) => (inputsRead = {} /\ opens = 0)

\* the first input has just been read
C6_Witness ==
    /\ pc = "read_db"
    /\ inputsRead = {"oifoutput"}

\* C7: a later hdf5 run on an existing file leaves in it the rows of the
\* earlier runs followed by its own.
C7_HdfLaterRunAppends ==
    (pc = "finish" /\ config.outputformat = "hdf5" /\ h5AtStart.exists)
        => h5.data = h5AtStart.data \o Stored(oif, run)

TableStages ==
    << "translate", "uncertainties", "snr_filter", "rand_photometry",
       "trailing_loss", "faint_filter", "rand_astrometry", "footprint_filter",
       "assemble", "write", "finish" >>
StageNo(p) == CHOOSE k \in 1..Len(TableStages) : TableStages[k] = p

\* C9: from the first stage to the output, the stages follow one another,
\* the rows never grow, only the three filters remove rows, every other
\* stage keeps the rows and their columns, and what is written is the
\* table the last stage left.
C9_OnlyFiltersRemoveRows ==
    [][ (pc \in Range(TableStages)) =>
          /\ pc' = "exited" \/ (pc # "finish" /\ pc' = TableStages[StageNo(pc) + 1])
          /\ RowIds(oif') \subseteq RowIds(oif)
          /\ Len(oif') = Cardinality(RowIds(oif'))
          /\ pc \notin {"snr_filter", "faint_filter", "footprint_filter"} =>
                /\ Column(oif', "ObjID") = Column(oif, "ObjID")
                /\ \A i \in 1..Len(oif) : DOMAIN oif[i] \subseteq DOMAIN oif'[i]
          /\ written' # written =>
                /\ pc = "write"
                /\ written' = <<[format |-> config.outputformat,
                                 rows |-> Stored(oif, run)]>> ]_vars

\* a completed run whose output holds the second row only
C9_Witness ==
    /\ pc = "finish"
    /\ Len(written) = 1
    /\ written[1].rows = << <<1, 2>> >>

\* C10: the polygons are those of 'detectors_corners.csv' and the rows kept
\* by the footprint filter are the rows inside them, whatever
\* camerafootprint is configured.
C10_FootprintIgnoresConfiguredPath ==
    [][ /\ pc = "load_footprint" =>
              /\ footprintFile' = "detectors_corners.csv"
              /\ detectors' = BuildDetectors(FootprintFiles["detectors_corners.csv"])
        /\ (pc = "footprint_filter" /\ pc' = "assemble") =>
              RowIds(oif') = IdsWhere(oif, LAMBDA r :
                  OnSensor(r, PointingsQuery(pointingdb),
                           BuildDetectors(FootprintFiles["detectors_corners.csv"]))) ]_vars

\* a run configured with the other footprint file that kept a row lying
\* inside the default polygons and outside the other file's
C10_Witness ==
    /\ pc = "assemble"
    /\ config.camerafootprint = OtherFootprint
    /\ Len(oif) = 1
    /\ oif[1]["AstRA(deg)"] = 0

====
